---- MODULE Spec2Model ----
(***************************************************************************)
(* A model of the qlbridge data source registry (datasource.go), the row   *)
(* stream primitive SourceIterChannel (datasource.go) and the select       *)
(* planner JobBuilder.VisitSelect (builder.go).                            *)
(***************************************************************************)
EXTENDS Integers, Sequences, FiniteSets, TLC

(***************************************************************************)
(* Bounds and program constants                                            *)
(***************************************************************************)

\* capacity of the out channel: make(chan Message, 100)
ChanCap == 100

\* small iterators yield 0..MaxRows rows before the nil sentinel
MaxRows == 3

\* the nil Message, the sentinel ending an iterator
NilMsg == 0

\* Register calls that store a source are modelled up to this many
MaxSources == 3

\* FROM clauses of up to this many tables are planned
MaxFrom == 3

\* Activities that call Register and Get concurrently
MaxProcs == 2

\* Argument lists of function calls and multi-arg nodes of up to this length
MaxArgs == 2

\* Lengths of the iterators the stream is run on: short ones, and one that
\* is longer than the channel buffer so that the producer meets a full queue.
IterLens == (0 .. MaxRows) \cup {ChanCap + MaxRows}

VARIABLES
    \* ---- SourceIterChannel ----
    iterLen,     \* rows iter.Next() yields before it returns nil
    iterPos,     \* rows iter.Next() has returned so far
    exhausted,   \* iter.Next() has returned nil
    item,        \* the producer's loop variable
    out,         \* the buffered channel's queue
    outClosed,   \* close(out) has run
    closeCount,  \* number of close(out) calls
    sigCh,       \* the cancellation signal is raised (a receive on sigCh is ready)
    pc,          \* position of the producer goroutine
    panicking,   \* a runtime fault is unwinding the producer
    recovered,   \* recover() returned a fault
    crashed,     \* a fault left the goroutine: the process is down
    quit,        \* the producer took the <-sigCh case
    received,    \* rows the consumer has taken from out
    sawClosed,   \* the consumer has seen out closed and drained
    sigRowsLeft, \* the signal was raised while iter still had rows to return
    \* ---- the registry of data sources ----
    sources,       \* DataSources.sources: lower-cased name -> DataSource
    tableSources,  \* DataSources.tableSources: table name -> DataSource
    sourceMu,      \* sourceMu is locked
    registered,    \* the names in sources, in the order Register stored them
    indexBuilt,    \* the table index build has run at least once
    ret,           \* the last call on the registry or the planner and its outcome
    \* ---- concurrent Register and Get calls ----
    procs,         \* the call each activity is in, and where in it
    \* ---- expr.Node.Check ----
    chk            \* the last Check call: the node and the error returned

chanVars == <<iterLen, iterPos, exhausted, item, out, outClosed, closeCount,
              sigCh, pc, panicking, recovered, crashed, quit, received,
              sawClosed, sigRowsLeft>>

regVars == <<sources, tableSources, sourceMu, registered, indexBuilt, ret>>

raceVars == <<procs>>

exprVars == <<chk>>

vars == <<chanVars, regVars, raceVars, exprVars>>

(***************************************************************************)
(* SourceIterChannel                                                       *)
(***************************************************************************)

\* The i-th Message of the iterator: rows are distinct non-nil values.
Row(i) == i

\* The rows the iterator yields before its sentinel.
IterRows == [i \in 1 .. iterLen |-> Row(i)]

\* out <- item can proceed: the buffer has room.
CanSendUnbounded == TRUE

CanSend == Len(out) < ChanCap

\* <-sigCh can proceed.
CanQuit == sigCh

\* No stream is running yet.
InitChan ==
    /\ iterLen = 0
    /\ iterPos = 0
    /\ exhausted = FALSE
    /\ item = NilMsg
    /\ out = <<>>
    /\ outClosed = FALSE
    /\ closeCount = 0
    /\ sigCh = FALSE
    /\ pc = "idle"
    /\ panicking = FALSE
    /\ recovered = FALSE
    /\ crashed = FALSE
    /\ quit = FALSE
    /\ received = <<>>
    /\ sawClosed = FALSE
    /\ sigRowsLeft = FALSE

\* SourceIterChannel(iter, filter, sigCh) is called on an iterator: it makes
\* the channel, starts the producer goroutine, which is about to evaluate the
\* loop's init statement, and returns out.
SourceIterChannel ==
    /\ pc = "idle"
    /\ iterLen' \in IterLens
    /\ out' = <<>>
    /\ pc' = "next"
    /\ UNCHANGED <<regVars, raceVars, exprVars>>
    /\ UNCHANGED <<iterPos, exhausted, item, outClosed, closeCount, sigCh,
                   panicking, recovered, crashed, quit, received, sawClosed,
                   sigRowsLeft>>

\* item = iter.Next() returns a row.
IterNextRow ==
    /\ pc = "next"
    /\ iterPos < iterLen
    /\ iterPos' = iterPos + 1
    /\ item' = Row(iterPos + 1)
    /\ pc' = "select"
    /\ UNCHANGED <<regVars, raceVars, exprVars>>
    /\ UNCHANGED <<iterLen, exhausted, out, outClosed, closeCount, sigCh,
                   panicking, recovered, crashed, quit, received, sawClosed,
                   sigRowsLeft>>

\* (a loop that may end before the iterator's sentinel)
IterNextNilEarly ==
    /\ pc = "next"
    /\ exhausted' = TRUE
    /\ item' = NilMsg
    /\ pc' = "defer"
    /\ UNCHANGED <<regVars, raceVars, exprVars>>
    /\ UNCHANGED <<iterLen, iterPos, out, outClosed, closeCount, sigCh,
                   panicking, recovered, crashed, quit, received, sawClosed,
                   sigRowsLeft>>

\* item = iter.Next() returns nil: the loop condition fails, the function
\* returns and the deferred function runs.
IterNextNil ==
    /\ pc = "next"
    /\ iterPos = iterLen
    /\ exhausted' = TRUE
    /\ item' = NilMsg
    /\ pc' = "defer"
    /\ UNCHANGED <<regVars, raceVars, exprVars>>
    /\ UNCHANGED <<iterLen, iterPos, out, outClosed, closeCount, sigCh,
                   panicking, recovered, crashed, quit, received, sawClosed,
                   sigRowsLeft>>

\* iter.Next() panics: the goroutine unwinds into the deferred function.
IterNextPanic ==
    /\ pc = "next"
    /\ panicking' = TRUE
    /\ pc' = "defer"
    /\ UNCHANGED <<regVars, raceVars, exprVars>>
    /\ UNCHANGED <<iterLen, iterPos, exhausted, item, out, outClosed,
                   closeCount, sigCh, recovered, crashed, quit, received,
                   sawClosed, sigRowsLeft>>

\* select, case <-sigCh: return.  Go picks among the ready cases of a
\* select at random, so this case is enabled whenever the signal is raised.
SelectQuit ==
    /\ pc = "select"
    /\ CanQuit
    /\ quit' = TRUE
    /\ pc' = "defer"
    /\ UNCHANGED <<regVars, raceVars, exprVars>>
    /\ UNCHANGED <<iterLen, iterPos, exhausted, item, out, outClosed,
                   closeCount, sigCh, panicking, recovered, crashed, received,
                   sawClosed, sigRowsLeft>>

\* select, case out <- item: continue with the loop's post statement.
SelectSend ==
    /\ pc = "select"
    /\ CanSend
    /\ out' = Append(out, item)
    /\ pc' = "next"
    /\ UNCHANGED <<regVars, raceVars, exprVars>>
    /\ UNCHANGED <<iterLen, iterPos, exhausted, item, outClosed, closeCount,
                   sigCh, panicking, recovered, crashed, quit, received,
                   sawClosed, sigRowsLeft>>

\* A fault that is unwinding the producer goes on unwinding past the
\* deferred function: never, since the deferred function calls recover().
UnwindsMissingRecover(p) == p

Unwinds(p) == FALSE

\* The deferred function: r := recover(), then close(out).  Closing a closed
\* channel is itself a fault, raised after the recover.
DeferredClose ==
    /\ pc = "defer"
    /\ recovered' = (recovered \/ (panicking /\ ~Unwinds(panicking)))
    /\ panicking' = Unwinds(panicking)
    /\ crashed' = (crashed \/ Unwinds(panicking) \/ outClosed)
    /\ outClosed' = TRUE
    /\ closeCount' = closeCount + 1
    /\ pc' = "done"
    /\ UNCHANGED <<regVars, raceVars, exprVars>>
    /\ UNCHANGED <<iterLen, iterPos, exhausted, item, out, sigCh, quit,
                   received, sawClosed, sigRowsLeft>>

\* The consumer receives from out: a buffered row if there is one, the
\* closed indication if out is closed and empty; it blocks otherwise.
ConsumerRecv ==
    /\ out # <<>>
    /\ received' = Append(received, Head(out))
    /\ out' = Tail(out)
    /\ UNCHANGED <<regVars, raceVars, exprVars>>
    /\ UNCHANGED <<iterLen, iterPos, exhausted, item, outClosed, closeCount,
                   sigCh, pc, panicking, recovered, crashed, quit, sawClosed,
                   sigRowsLeft>>

ConsumerRecvClosed ==
    /\ out = <<>>
    /\ outClosed
    /\ ~sawClosed
    /\ sawClosed' = TRUE
    /\ UNCHANGED <<regVars, raceVars, exprVars>>
    /\ UNCHANGED <<iterLen, iterPos, exhausted, item, out, outClosed,
                   closeCount, sigCh, pc, panicking, recovered, crashed, quit,
                   received, sigRowsLeft>>

\* The owner of sigCh raises the cancellation signal.
Cancel ==
    /\ ~sigCh
    /\ sigCh' = TRUE
    /\ sigRowsLeft' = (pc # "idle" /\ iterPos < iterLen)
    /\ UNCHANGED <<regVars, raceVars, exprVars>>
    /\ UNCHANGED <<iterLen, iterPos, exhausted, item, out, outClosed,
                   closeCount, pc, panicking, recovered, crashed, quit,
                   received, sawClosed>>

Producer == IterNextRow \/ IterNextNil \/ IterNextPanic \/ SelectQuit
            \/ SelectSend \/ DeferredClose

Consumer == ConsumerRecv \/ ConsumerRecvClosed

NextChan ==
    \/ SourceIterChannel
    \/ IterNextRow
    \/ IterNextNil
    \/ IterNextPanic
    \/ SelectQuit
    \/ SelectSend
    \/ DeferredClose
    \/ ConsumerRecv
    \/ ConsumerRecvClosed
    \/ Cancel

(***************************************************************************)
(* The registry of data sources: Register, DataSources.Get                 *)
(***************************************************************************)

\* Names are strings of at most one character; a character is a letter in
\* lower or upper case.
Chars == {"x", "X", "y"}

Names == {<<>>} \cup {<<c>> : c \in Chars}

\* strings.ToLower, character by character
LowerChar(c) == CASE c = "X" -> "x" [] OTHER -> c

ToLower(s) == [i \in 1 .. Len(s) |-> LowerChar(s[i])]

\* The DataSource values handed to Register: an implementation and what its
\* Tables() returns.  NilSource is the nil interface.
Backends ==
    {[impl |-> "A", tables |-> << <<"x">> >>],
     [impl |-> "B", tables |-> << <<"x">> >>],
     [impl |-> "B", tables |-> << <<"X">>, <<"y">> >>]}

NilSource == [impl |-> "nil", tables |-> <<>>]

\* The implementations that also satisfy Scanner, and Seeker.
Scanners == {"A"}

Seekers == {}

\* NewFeaturedSource: the source wrapped with its probed features.
NewFeaturedSource(src) ==
    [src |-> src, scan |-> src.impl \in Scanners, seek |-> src.impl \in Seekers]

\* A nil *DataSourceFeatures, and a nil SourceConn
NotFound == [src |-> NilSource, scan |-> FALSE, seek |-> FALSE]

\* The orders in which a range over a map with key set S may enumerate it.
Orders(S) ==
    {o \in [1 .. Cardinality(S) -> S] :
        \A i, j \in 1 .. Cardinality(S) : i # j => o[i] # o[j]}

\* The call record of a call that has no outcome yet.
NoCall ==
    [op |-> "none", name |-> <<>>, src |-> NilSource, panicked |-> FALSE,
     res |-> NotFound, built |-> FALSE, order |-> <<>>,
     nfrom |-> 0, sub |-> FALSE, where |-> "nil", tasks |-> <<>>,
     err |-> ""]

InitReg ==
    /\ sources = <<>>
    /\ tableSources = <<>>
    /\ sourceMu = FALSE
    /\ registered = <<>>
    /\ indexBuilt = FALSE
    /\ ret = NoCall

\* (a Register that stores without looking for a duplicate)
RegisterOverwrite(name, source) ==
    IF source = NilSource
    THEN [panicked |-> TRUE, sources |-> sources, mu |-> sourceMu]
    ELSE [panicked |-> FALSE,
          sources |-> [k \in DOMAIN sources \cup {ToLower(name)} |->
                          IF k = ToLower(name) THEN source ELSE sources[k]],
          mu |-> FALSE]

\* Register(name, source): the panic and the maps it leaves.  The nil check
\* comes before the lock is taken; the duplicate check runs under the lock,
\* which the deferred Unlock releases on return and on panic alike.
RegisterResult(name, source) ==
    IF source = NilSource
    THEN [panicked |-> TRUE, sources |-> sources, mu |-> sourceMu]
    ELSE IF ToLower(name) \in DOMAIN sources
    THEN [panicked |-> TRUE, sources |-> sources, mu |-> FALSE]
    ELSE [panicked |-> FALSE,
          sources |-> [k \in DOMAIN sources \cup {ToLower(name)} |->
                          IF k = ToLower(name) THEN source ELSE sources[k]],
          mu |-> FALSE]

Register ==
    \E name \in Names, source \in Backends \cup {NilSource} :
        LET r == RegisterResult(name, source) IN
        /\ ~sourceMu
        /\ (~r.panicked => Cardinality(DOMAIN sources) < MaxSources)
        /\ sources' = r.sources
        /\ sourceMu' = r.mu
        /\ registered' = IF r.panicked THEN registered
                         ELSE Append(registered, ToLower(name))
        /\ ret' = [NoCall EXCEPT !.op = "Register", !.name = name,
                                  !.src = source, !.panicked = r.panicked]
        /\ UNCHANGED <<tableSources, indexBuilt>>
        /\ UNCHANGED <<chanVars, raceVars, exprVars>>

\* (an index in which a later source replaces an earlier one)
RECURSIVE AddTablesLastWins(_, _, _)
AddTablesLastWins(idx, src, tbls) ==
    IF tbls = <<>> THEN idx
    ELSE AddTablesLastWins(
             [k \in DOMAIN idx \cup {Head(tbls)} |->
                 IF k = Head(tbls) THEN src ELSE idx[k]],
             src, Tail(tbls))

\* The inner loop of the index build: a table that is in the index already
\* is warned about and kept, any other is bound to src.
RECURSIVE AddTables(_, _, _)
AddTables(idx, src, tbls) ==
    IF tbls = <<>> THEN idx
    ELSE AddTables(
             IF Head(tbls) \in DOMAIN idx THEN idx
             ELSE [k \in DOMAIN idx \cup {Head(tbls)} |->
                      IF k = Head(tbls) THEN src ELSE idx[k]],
             src, Tail(tbls))

\* The outer loop of the index build, over the sources in the order the map
\* range enumerates them.
RECURSIVE BuildIndex(_, _)
BuildIndex(idx, order) ==
    IF order = <<>> THEN idx
    ELSE BuildIndex(
             AddTables(idx, sources[Head(order)],
                       sources[Head(order)].tables),
             Tail(order))

\* (a Get without the single-source fallback)
GetNoFallback(sourceType, order) ==
    IF ToLower(sourceType) \in DOMAIN sources
    THEN [res |-> NewFeaturedSource(sources[ToLower(sourceType)]),
          index |-> tableSources, built |-> FALSE]
    ELSE LET build == DOMAIN tableSources = {}
             idx == IF build THEN BuildIndex(tableSources, order)
                    ELSE tableSources
         IN  [res |-> IF sourceType \in DOMAIN idx
                      THEN NewFeaturedSource(idx[sourceType])
                      ELSE NotFound,
              index |-> idx, built |-> build]

\* DataSources.Get(sourceType), with the map range enumerating in `order`:
\* what it returns and the table index it leaves.
GetResult(sourceType, order) ==
    IF ToLower(sourceType) \in DOMAIN sources
    THEN [res |-> NewFeaturedSource(sources[ToLower(sourceType)]),
          index |-> tableSources, built |-> FALSE]
    ELSE IF Cardinality(DOMAIN sources) = 1
    THEN [res |-> NewFeaturedSource(sources[CHOOSE k \in DOMAIN sources : TRUE]),
          index |-> tableSources, built |-> FALSE]
    ELSE LET build == DOMAIN tableSources = {}
             idx == IF build THEN BuildIndex(tableSources, order)
                    ELSE tableSources
         IN  [res |-> IF sourceType \in DOMAIN idx
                      THEN NewFeaturedSource(idx[sourceType])
                      ELSE NotFound,
              index |-> idx, built |-> build]

\* The enumeration orders a Get of sourceType can meet: those of the map
\* range in the index build, when the call gets there.
RangeOrders(sourceType) ==
    IF GetResult(sourceType, <<>>).built THEN Orders(DOMAIN sources) ELSE {<<>>}

Get ==
    \E sourceType \in Names :
      \E order \in RangeOrders(sourceType) :
        LET r == GetResult(sourceType, order) IN
        /\ tableSources' = r.index
        /\ indexBuilt' = (indexBuilt \/ r.built)
        /\ ret' = [NoCall EXCEPT !.op = "Get", !.name = sourceType,
                                  !.res = r.res, !.built = r.built,
                                  !.order = IF r.built THEN order ELSE <<>>]
        /\ UNCHANGED <<sources, sourceMu, registered>>
        /\ UNCHANGED <<chanVars, raceVars, exprVars>>

(***************************************************************************)
(* The planner: JobBuilder.VisitSelect                                     *)
(***************************************************************************)

\* A FROM entry (expr.SqlSource): its Name, and whether its Source, a
\* sub-select, is set.
FromSources ==
    {[name |-> <<>>, source |-> FALSE],
     [name |-> <<"x">>, source |-> FALSE],
     [name |-> <<"x">>, source |-> TRUE]}

\* FROM clauses of up to MaxFrom entries.  VisitSelect reads the entries of
\* a clause of one or two only: a longer clause repeats one entry.
FromLists ==
    UNION {{f \in [1 .. n -> FromSources] :
               n > 2 => \A i \in 2 .. n : f[i] = f[1]} : n \in 0 .. MaxFrom}

\* stmt.Where: nil, or a SqlWhere with its Source (a sub-query) or its Expr
\* set, or neither.
Wheres == {"nil", "source", "expr", "neither"}

Statements == [from : FromLists, where : Wheres]

\* RuntimeConfig.Conn(name): the connection of the source the registry
\* resolves name to, nil when it resolves to none; whether that connection
\* is a Scanner, and the table index the resolve leaves.
Conn(name, order) ==
    LET g == GetResult(name, order) IN
    [scanner |-> g.res.src # NilSource /\ g.res.scan, res |-> g.res,
     index |-> g.index, built |-> g.built]

\* NewSourceJoin(m, left, right, schema): a join task over the connections
\* of both sides, an error when a side is no Scanner.
NewSourceJoin(left, right, order) ==
    LET l == Conn(left.name, order)
        r == Conn(right.name, order)
    IN  [err |-> IF l.scanner /\ r.scanner THEN ""
                 ELSE "Must Implement Scanner",
         index |-> IF l.built THEN l.index ELSE r.index,
         built |-> l.built \/ r.built]

\* (a tail that takes any WHERE that is set for a filter)
WhereAnyAndProjection(tasks, stmt) ==
    (tasks \o (IF stmt.where # "nil" THEN <<"Where">> ELSE <<>>))
        \o <<"Projection">>

\* The tail of VisitSelect: the Where task of an expression WHERE, then the
\* Projection task.
WhereAndProjection(tasks, stmt) ==
    (tasks \o (IF stmt.where = "expr" THEN <<"Where">> ELSE <<>>))
        \o <<"Projection">>

\* (a planner that takes any FROM clause of two or more tables for a join)
VisitSelectJoinsAll(stmt, order) ==
    IF Len(stmt.from) = 0
    THEN [tasks |-> <<>>,
          err |-> "3 or more Table/Join not currently implemented",
          res |-> NotFound, index |-> tableSources, built |-> FALSE]
    ELSE [tasks |-> WhereAndProjection(<<"SourceJoin">>, stmt), err |-> "",
          res |-> NotFound, index |-> tableSources, built |-> FALSE]

\* (a planner that wraps whatever connection it gets as a Source task)
VisitSelectNoScanCheck(stmt, order) ==
    IF Len(stmt.from) = 1
    THEN LET c == Conn(stmt.from[1].name, order) IN
         [tasks |-> WhereAndProjection(<<"Source">>, stmt), err |-> "",
          res |-> c.res, index |-> c.index, built |-> c.built]
    ELSE [tasks |-> <<>>,
          err |-> "3 or more Table/Join not currently implemented",
          res |-> NotFound, index |-> tableSources, built |-> FALSE]

\* VisitSelect(stmt): the task list and the error it returns, what the one
\* table's name resolved to, the table index it leaves behind and whether it
\* ran the index build.
VisitSelectResult(stmt, order) ==
    IF Len(stmt.from) = 1
    THEN IF stmt.from[1].name # <<>> /\ ~stmt.from[1].source
         THEN LET c == Conn(stmt.from[1].name, order) IN
              IF ~c.scanner
              THEN [tasks |-> <<>>, err |-> "Must Implement Scanner",
                    res |-> c.res, index |-> c.index, built |-> c.built]
              ELSE [tasks |-> WhereAndProjection(<<"Source">>, stmt),
                    err |-> "", res |-> c.res, index |-> c.index,
                    built |-> c.built]
         ELSE [tasks |-> WhereAndProjection(<<>>, stmt), err |-> "",
               res |-> NotFound, index |-> tableSources, built |-> FALSE]
    ELSE IF Len(stmt.from) # 2
    THEN [tasks |-> <<>>,
          err |-> "3 or more Table/Join not currently implemented",
          res |-> NotFound, index |-> tableSources, built |-> FALSE]
    ELSE LET j == NewSourceJoin(stmt.from[1], stmt.from[2], order) IN
         IF j.err # ""
         THEN [tasks |-> <<>>, err |-> j.err, res |-> NotFound,
               index |-> j.index, built |-> j.built]
         ELSE [tasks |-> WhereAndProjection(<<"SourceJoin">>, stmt),
               err |-> "", res |-> NotFound, index |-> j.index,
               built |-> j.built]

\* The enumeration orders a VisitSelect of stmt can meet.
PlanOrders(stmt) ==
    IF VisitSelectResult(stmt, <<>>).built
    THEN Orders(DOMAIN sources) ELSE {<<>>}

VisitSelect ==
    \E stmt \in Statements :
      \E order \in PlanOrders(stmt) :
        \E r \in {VisitSelectResult(stmt, order)} :
        /\ tableSources' = r.index
        /\ indexBuilt' = (indexBuilt \/ r.built)
        /\ ret' = [NoCall EXCEPT !.op = "VisitSelect",
                                  !.nfrom = Len(stmt.from),
                                  !.name = IF Len(stmt.from) = 1
                                           THEN stmt.from[1].name ELSE <<>>,
                                  !.sub = Len(stmt.from) = 1
                                          /\ stmt.from[1].source,
                                  !.res = r.res, !.built = r.built,
                                  !.where = stmt.where,
                                  !.tasks = r.tasks, !.err = r.err]
        /\ UNCHANGED <<sources, sourceMu, registered>>
        /\ UNCHANGED <<chanVars, raceVars, exprVars>>

(***************************************************************************)
(* Register and Get called from concurrent activities                      *)
(*                                                                         *)
(* Each activity runs one call at a time, a step per access to the shared  *)
(* registry: Register takes sourceMu, checks and stores under it, and the  *)
(* deferred Unlock releases it; Get looks the name up in sources, builds   *)
(* the table index when it is empty, and looks the name up in the index,   *)
(* and takes no lock anywhere.                                             *)
(***************************************************************************)

Threads == 1 .. MaxProcs

\* An activity that is in no call.
Idle == [op |-> "none", pc |-> "idle", name |-> <<>>, src |-> NilSource]

InitRace == procs = [t \in Threads |-> Idle]

\* Register is called: the nil check panics before anything is touched,
\* otherwise the name is lower-cased and the call goes for the lock.
RegisterCall(t) ==
    \E name \in Names, source \in Backends \cup {NilSource} :
        /\ procs[t].pc = "idle"
        /\ procs' = [procs EXCEPT ![t] =
              IF source = NilSource THEN Idle
              ELSE [op |-> "Register", pc |-> "lock",
                    name |-> ToLower(name), src |-> source]]
        /\ UNCHANGED <<chanVars, regVars, exprVars>>

\* sourceMu.Lock()
RegisterLock(t) ==
    /\ procs[t].pc = "lock"
    /\ ~sourceMu
    /\ sourceMu' = TRUE
    /\ procs' = [procs EXCEPT ![t].pc = "store"]
    /\ UNCHANGED <<sources, tableSources, registered, indexBuilt, ret>>
    /\ UNCHANGED <<chanVars, exprVars>>

\* The duplicate check and the store, under the lock.
RegisterStore(t) ==
    LET name == procs[t].name
        dup  == name \in DOMAIN sources
    IN  /\ procs[t].pc = "store"
        /\ (~dup => Cardinality(DOMAIN sources) < MaxSources)
        /\ sources' = IF dup THEN sources
                      ELSE [k \in DOMAIN sources \cup {name} |->
                               IF k = name THEN procs[t].src ELSE sources[k]]
        /\ registered' = IF dup THEN registered ELSE Append(registered, name)
        /\ procs' = [procs EXCEPT ![t] = [Idle EXCEPT !.op = "Register",
                                                       !.pc = "unlock"]]
        /\ UNCHANGED <<tableSources, sourceMu, indexBuilt, ret>>
        /\ UNCHANGED <<chanVars, exprVars>>

\* The deferred sourceMu.Unlock(), on return and on panic.
RegisterUnlock(t) ==
    /\ procs[t].pc = "unlock"
    /\ sourceMu' = FALSE
    /\ procs' = [procs EXCEPT ![t] = Idle]
    /\ UNCHANGED <<sources, tableSources, registered, indexBuilt, ret>>
    /\ UNCHANGED <<chanVars, exprVars>>

\* Get is called.
GetCall(t) ==
    \E sourceType \in Names :
        /\ procs[t].pc = "idle"
        /\ procs' = [procs EXCEPT ![t] = [op |-> "Get", pc |-> "lookup",
                                          name |-> sourceType,
                                          src |-> NilSource]]
        /\ UNCHANGED <<chanVars, regVars, exprVars>>

\* The lookup by lower-cased name and the single-source fallback: both read
\* sources and return from the call when they find a source.
GetLookup(t) ==
    /\ procs[t].pc = "lookup"
    /\ procs' = [procs EXCEPT ![t] =
          IF \/ ToLower(procs[t].name) \in DOMAIN sources
             \/ Cardinality(DOMAIN sources) = 1
          THEN Idle
          ELSE [@ EXCEPT !.pc = "index"]]
    /\ UNCHANGED <<chanVars, regVars, exprVars>>

\* The index build: it reads the size of tableSources and, when that is 0,
\* ranges over sources and writes tableSources.
GetBuildIndex(t) ==
    /\ procs[t].pc = "index"
    /\ \E order \in IF DOMAIN tableSources = {} THEN Orders(DOMAIN sources)
                    ELSE {<<>>} :
          tableSources' = BuildIndex(tableSources, order)
    /\ indexBuilt' = (indexBuilt \/ DOMAIN tableSources = {})
    /\ procs' = [procs EXCEPT ![t].pc = "find"]
    /\ UNCHANGED <<sources, sourceMu, registered, ret>>
    /\ UNCHANGED <<chanVars, exprVars>>

\* The lookup in the table index, and the return.
GetFind(t) ==
    /\ procs[t].pc = "find"
    /\ procs' = [procs EXCEPT ![t] = Idle]
    /\ UNCHANGED <<chanVars, regVars, exprVars>>

NextRace ==
    \E t \in Threads :
        \/ RegisterCall(t) \/ RegisterLock(t) \/ RegisterStore(t)
        \/ RegisterUnlock(t)
        \/ GetCall(t) \/ GetLookup(t) \/ GetBuildIndex(t) \/ GetFind(t)

\* The maps the next step of activity t reads and writes, and whether t
\* holds sourceMu while it does.
Reads(t) ==
    CASE procs[t].pc = "store"  -> {"sources"}
      [] procs[t].pc = "lookup" -> {"sources"}
      [] procs[t].pc = "index"  ->
            IF DOMAIN tableSources = {} THEN {"sources", "tableSources"}
            ELSE {"tableSources"}
      [] procs[t].pc = "find"   -> {"tableSources"}
      [] OTHER                  -> {}

Writes(t) ==
    CASE procs[t].pc = "store" /\ procs[t].name \notin DOMAIN sources ->
            {"sources"}
      [] procs[t].pc = "index" /\ DOMAIN tableSources = {}
                               /\ DOMAIN sources # {} -> {"tableSources"}
      [] OTHER -> {}

HoldsLock(t) == procs[t].pc \in {"store", "unlock"}

(***************************************************************************)
(* expr.Node.Check                                                         *)
(*                                                                         *)
(* A node is a record of its variant, the name of its function (FuncNode   *)
(* only) and its argument nodes in order.  The trees are those the parser  *)
(* builds: every argument is a node.                                       *)
(***************************************************************************)

\* The Func descriptors a FuncNode maps to: len(F.Args) and F.VariadicArgs.
Funcs ==
    [f |-> [args |-> 1, variadic |-> FALSE],
     g |-> [args |-> 1, variadic |-> TRUE],
     h |-> [args |-> 2, variadic |-> FALSE]]

LeafKinds == {"NumberNode", "StringNode", "IdentityNode", "NullNode"}

Node(kind, name, args) == [kind |-> kind, name |-> name, args |-> args]

\* The sequences of up to MaxArgs nodes of S.
ArgLists(S) == UNION {[1 .. n -> S] : n \in 0 .. MaxArgs}

\* The nodes of one variant each over argument nodes of S.
NodesOver(S) ==
    {Node("UnaryNode", "", <<a>>) : a \in S}
    \cup {Node("BinaryNode", "", args) : args \in [1 .. 2 -> S]}
    \cup {Node("TriNode", "", args) : args \in [1 .. 3 -> S]}
    \cup {Node("MultiArgNode", "", args) : args \in ArgLists(S)}
    \cup {Node("FuncNode", name, args) :
             name \in DOMAIN Funcs, args \in ArgLists(S)}

\* Literals, identities and function calls without arguments.
Atoms ==
    {Node(k, "", <<>>) : k \in LeafKinds}
    \cup {Node("FuncNode", name, <<>>) : name \in DOMAIN Funcs}

Trees == Atoms \cup NodesOver(Atoms)

NoError == [msg |-> "nil", name |-> ""]

\* The argument count tests FuncNode.Check starts with.
ArityError(n) ==
    LET F == Funcs[n.name] IN
    IF Len(n.args) < F.args /\ ~F.variadic
    THEN [msg |-> "not enough arguments", name |-> n.name]
    ELSE IF Len(n.args) >= F.args /\ F.variadic
    THEN NoError
    ELSE IF Len(n.args) > F.args
    THEN [msg |-> "too many arguments", name |-> n.name]
    ELSE NoError

\* Check() of each node variant.  CheckArgs is the loop of FuncNode.Check
\* over c.Args, which returns the first error it meets.
RECURSIVE Check(_)
RECURSIVE CheckArgs(_)
Check(n) ==
    CASE n.kind \in LeafKinds -> NoError
      [] n.kind = "FuncNode" ->
            IF ArityError(n) # NoError THEN ArityError(n)
            ELSE CheckArgs(n.args)
      [] n.kind = "UnaryNode" -> Check(n.args[1])
      [] n.kind = "BinaryNode" -> NoError
      [] n.kind = "TriNode" -> NoError
      [] n.kind = "MultiArgNode" -> NoError

CheckArgs(args) ==
    IF args = <<>> THEN NoError
    ELSE IF Check(Head(args)) # NoError THEN Check(Head(args))
    ELSE CheckArgs(Tail(args))

NoCheck == [op |-> "none", node |-> Node("NullNode", "", <<>>), err |-> NoError]

InitExpr == chk = NoCheck

\* root.Check() on a tree.
CheckCall ==
    \E root \in Trees :
        /\ chk' = [op |-> "Check", node |-> root, err |-> Check(root)]
        /\ UNCHANGED <<chanVars, regVars, raceVars>>

NextCheck == CheckCall

NextReg == Register \/ Get

NextPlan == Register \/ VisitSelect

Init == InitChan /\ InitReg /\ InitRace /\ InitExpr

Next == NextChan \/ NextReg \/ NextPlan \/ NextRace \/ NextCheck

SpecChan == Init /\ [][NextChan]_vars

\* The registry under Register and Get calls.
Spec == Init /\ [][NextReg]_vars

\* The planner over a registry that Register fills.
SpecPlan == Init /\ [][NextPlan]_vars

\* The registry under Register and Get calls of concurrent activities.
SpecRace == Init /\ [][NextRace]_vars

\* Check calls on expression trees.
SpecCheck == Init /\ [][NextCheck]_vars

\* The Go scheduler runs a runnable goroutine eventually: the producer takes
\* a step whenever one stays possible.  The consumer is free to stop reading.
FairSpecProducer == SpecChan /\ WF_vars(Producer)

\* The same, with a consumer that keeps draining the queue.
FairSpecChan == SpecChan /\ WF_vars(Producer) /\ WF_vars(Consumer)

(***************************************************************************)
(* Properties of SourceIterChannel                                         *)
(***************************************************************************)

IsPrefix(s, t) == Len(s) <= Len(t) /\ SubSeq(t, 1, Len(s)) = s

\* C1: once the signal is raised while the iterator still has rows, the
\* producer never reaches the iterator's end-of-data sentinel, and when it
\* has stopped the queue is closed.
C1_StopsBeforeExhausted ==
    sigRowsLeft => (~exhausted /\ (pc = "done" => outClosed))

\* (the part of C1 the code keeps: a raised signal leads to a closed queue,
\* whatever the consumer does)
CancelLeadsToClosed == (sigCh /\ pc # "idle") ~> outClosed

\* C2: when the signal is already raised as the producer offers a row, the
\* row is not enqueued.
C2_CancelPriority ==
    [][(sigCh /\ pc = "select") => out' # Append(out, item)]_vars

\* C3: a fault raised by iter.Next() is caught in the producer: the process
\* never crashes, out is closed exactly once by the time the producer is
\* done, a fault leads to the closed queue, and a consumer of the closed
\* queue is never blocked.
C3_FaultClosesQueue ==
    /\ [](~crashed /\ closeCount <= 1)
    /\ [](pc = "done" => (outClosed /\ closeCount = 1 /\ ~panicking))
    /\ [](outClosed /\ ~sawClosed => ENABLED Consumer)
    /\ (panicking ~> outClosed)

C3_Witness == recovered /\ outClosed /\ pc = "done" /\ iterPos > 0

\* C4: without cancellation and fault and with a draining consumer, the
\* rows received and queued are always a prefix of the iterator's rows, out
\* is closed only when every row was enqueued, and the consumer ends up
\* with exactly the iterator's rows and then sees the queue closed.
C4_AllRowsThenClosed ==
    /\ [](IsPrefix(received \o out, IterRows))
    /\ []((outClosed /\ ~quit /\ ~recovered) => received \o out = IterRows)
    /\ []((sawClosed /\ ~quit /\ ~recovered) => received = IterRows)
    /\ (pc # "idle") ~> (sigCh \/ recovered \/ sawClosed)

C4_Witness ==
    sawClosed /\ ~sigCh /\ ~recovered /\ iterLen > ChanCap /\ received = IterRows

\* C5 as stated: out never holds more than ChanCap rows, while it holds
\* ChanCap rows no row is pulled from the iterator, and the consumer sees
\* end-of-stream only on a closed queue.
C5_NoPullWhenFull ==
    [][/\ Len(out') <= ChanCap
       /\ (Len(out) = ChanCap => iterPos' = iterPos)
       /\ (sawClosed' => outClosed')]_vars

\* C5 amended: out never holds more than ChanCap rows; the producer holds at
\* most one pulled row that is not yet enqueued; with ChanCap rows queued
\* the producer in its select pulls nothing and enqueues nothing, and leaves
\* the select only by the raised signal; the consumer sees end-of-stream
\* only on a closed and empty queue and is blocked on an open empty one.
C5_Backpressure ==
    /\ [](Len(out) <= ChanCap)
    /\ [](iterPos - (Len(received) + Len(out)) <= 1)
    /\ [][(Len(out) = ChanCap /\ pc = "select") =>
            /\ iterPos' = iterPos
            /\ out' # Append(out, item)
            /\ (pc' # pc => (sigCh /\ quit'))]_vars
    /\ [](sawClosed => (outClosed /\ out = <<>>))
    /\ []((out = <<>> /\ ~outClosed) => ~ENABLED Consumer)

C5_Witness ==
    Len(out) = ChanCap /\ pc = "select" /\ iterPos = ChanCap + 1 /\ ~sigCh

(***************************************************************************)
(* Properties of the registry                                              *)
(***************************************************************************)

Range(f) == {f[i] : i \in DOMAIN f}

\* The registered names whose source lists table t.
Exposers(t) == {k \in DOMAIN sources : t \in Range(sources[k].tables)}

\* The name among S that comes first, and last, in the sequence order.
FirstOf(order, S) ==
    order[CHOOSE i \in DOMAIN order :
              order[i] \in S /\ \A j \in 1 .. i - 1 : order[j] \notin S]

LastOf(order, S) ==
    order[CHOOSE i \in DOMAIN order :
              order[i] \in S /\ \A j \in i + 1 .. Len(order) : order[j] \notin S]

\* C6: a Register call panics exactly when the source is nil or the
\* lower-cased name is registered already; a panicking call leaves sources
\* as it was; a succeeding call binds the lower-cased name to the source and
\* changes no other entry; either way sourceMu is unlocked afterwards and
\* the table index is untouched.
C6_RegisterContract ==
    [][ret'.op = "Register" =>
        LET n == ToLower(ret'.name) IN
        /\ ret'.panicked <=> (ret'.src = NilSource \/ n \in DOMAIN sources)
        /\ ret'.panicked => sources' = sources
        /\ ~ret'.panicked =>
              /\ DOMAIN sources' = DOMAIN sources \cup {n}
              /\ sources'[n] = ret'.src
              /\ \A k \in DOMAIN sources : sources'[k] = sources[k]
        /\ ~sourceMu'
        /\ tableSources' = tableSources]_vars

C6_Witness ==
    /\ ret.op = "Register"
    /\ ret.panicked
    /\ ret.src # NilSource
    /\ ret.name # ToLower(ret.name)
    /\ sources[ToLower(ret.name)] # ret.src

\* C7: a Get returns not-found exactly when the lower-cased name is no
\* registered name, sources does not hold exactly one entry and the name is
\* no key of the table index; with exactly one entry every name resolves to
\* that source; with more than one, a name that is neither registered nor a
\* table of a registered source is not found.
C7_GetNotFound ==
    ret.op = "Get" =>
        /\ ret.res = NotFound <=>
              /\ ToLower(ret.name) \notin DOMAIN sources
              /\ Cardinality(DOMAIN sources) # 1
              /\ ret.name \notin DOMAIN tableSources
        /\ Cardinality(DOMAIN sources) = 1 =>
              \A k \in DOMAIN sources : ret.res.src = sources[k]
        /\ (/\ Cardinality(DOMAIN sources) > 1
            /\ ToLower(ret.name) \notin DOMAIN sources
            /\ Exposers(ret.name) = {}) => ret.res = NotFound
        /\ ~ret.panicked

C7_Witness ==
    /\ ret.op = "Get"
    /\ ret.res = NotFound
    /\ Cardinality(DOMAIN sources) > 1
    /\ tableSources # <<>>

\* The case of C8: a Get of a table name that is no registered name, with
\* two different registered sources listing that table.
TwoExposers ==
    /\ ret.op = "Get"
    /\ ToLower(ret.name) \notin DOMAIN sources
    /\ \E a, b \in Exposers(ret.name) : sources[a] # sources[b]

\* C8 as stated: such a Get returns the source registered last among those
\* listing the table.
C8_LastRegisteredWins ==
    TwoExposers =>
        ret.res.src = sources[LastOf(registered, Exposers(ret.name))]

\* C8 amended: such a Get, when it builds the table index, returns the source
\* that the map range enumerates first among those listing the table; any
\* such Get returns not-found or a registered source listing the table.
C8_FirstEnumeratedWins ==
    TwoExposers =>
        /\ ret.built =>
              ret.res.src = sources[FirstOf(ret.order, Exposers(ret.name))]
        /\ \/ ret.res = NotFound
           \/ ret.res.src \in {sources[k] : k \in Exposers(ret.name)}

C8_Witness ==
    /\ TwoExposers
    /\ ret.built
    /\ ret.res.src # sources[LastOf(registered, Exposers(ret.name))]

\* C9: two Get calls in a row whose names differ in letter case only return
\* the same result.
C9_CaseInsensitive ==
    [][(/\ ret.op = "Get"
        /\ ret'.op = "Get"
        /\ ToLower(ret.name) = ToLower(ret'.name)) => ret'.res = ret.res]_vars

(***************************************************************************)
(* Properties of the planner                                               *)
(***************************************************************************)

\* C10: a VisitSelect of a statement with no FROM table or with three or
\* more returns the "not currently implemented" error and no task list,
\* without a panic and without a change to the registry.
C10_UnsupportedFrom ==
    [][(ret'.op = "VisitSelect" /\ ret'.nfrom \notin {1, 2}) =>
        /\ ret'.err = "3 or more Table/Join not currently implemented"
        /\ ret'.tasks = <<>>
        /\ ~ret'.panicked
        /\ sources' = sources
        /\ tableSources' = tableSources
        /\ sourceMu' = sourceMu]_vars

C10_Witness ==
    /\ ret.op = "VisitSelect"
    /\ ret.nfrom >= 3
    /\ ret.where = "expr"
    /\ ret.err # ""
    /\ Cardinality(DOMAIN sources) > 1

\* The case of C11 and C12: a VisitSelect of a statement with one FROM table
\* that is named and no sub-select, so that its connection is resolved.
OneTable ==
    /\ ret.op = "VisitSelect"
    /\ ret.nfrom = 1
    /\ ret.name # <<>>
    /\ ~ret.sub

C12_TaskOrder ==
    ret.op = "VisitSelect" =>
        /\ (OneTable /\ ret.res.scan /\ ret.where = "expr") =>
              (ret.err = "" /\ ret.tasks = <<"Source", "Where", "Projection">>)
        /\ ret.err = "" =>
              /\ ret.tasks # <<>>
              /\ \A i \in DOMAIN ret.tasks :
                    ret.tasks[i] = "Projection" <=> i = Len(ret.tasks)
              /\ \A i \in DOMAIN ret.tasks :
                    ret.tasks[i] = "Where" =>
                       /\ ret.where = "expr"
                       /\ i < Len(ret.tasks)
                       /\ \A j \in DOMAIN ret.tasks :
                             ret.tasks[j] \in {"Source", "SourceJoin"} => j < i
              /\ Cardinality({i \in DOMAIN ret.tasks :
                                 ret.tasks[i] = "Where"}) <= 1

C12_Witness ==
    /\ OneTable
    /\ ret.where = "expr"
    /\ ret.tasks = <<"Source", "Where", "Projection">>

\* C16: the task list of a successful VisitSelect begins with a Source or a
\* SourceJoin task.
C16_BeginsWithSource ==
    (ret.op = "VisitSelect" /\ ret.err = "") =>
        (ret.tasks # <<>> /\ ret.tasks[1] \in {"Source", "SourceJoin"})

(***************************************************************************)
(* Properties of the table index                                           *)
(***************************************************************************)

\* This step ran the index build.
BuildStep == ret'.op \in {"Get", "VisitSelect"} /\ ret'.built /\ ret' # ret

\* C14 as stated: once the index build has run, no call changes the table
\* index and the build does not run again.
C14_BuiltOnce ==
    [][indexBuilt => (tableSources' = tableSources /\ ~BuildStep)]_vars

(***************************************************************************)
(* Properties of the registry under concurrent calls                       *)
(***************************************************************************)

\* C13: at no point is one activity about to write sources or tableSources
\* while another activity is about to read or write the same map without
\* holding sourceMu.
C13_MapsGuarded ==
    \A t, u \in Threads :
        t # u => (HoldsLock(u) \/ Writes(t) \cap (Reads(u) \cup Writes(u)) = {})

(***************************************************************************)
(* Properties of Check                                                     *)
(***************************************************************************)

\* The error of the first node, in depth-first argument order, that fails
\* its own check; NoError when no node of the tree fails.
RECURSIVE FirstFailure(_)
RECURSIVE FirstFailureIn(_)
FirstFailure(n) ==
    IF n.kind = "FuncNode" /\ ArityError(n) # NoError THEN ArityError(n)
    ELSE FirstFailureIn(n.args)

FirstFailureIn(args) ==
    IF args = <<>> THEN NoError
    ELSE IF FirstFailure(Head(args)) # NoError THEN FirstFailure(Head(args))
    ELSE FirstFailureIn(Tail(args))

\* C15: Check on the root of a tree returns an error whenever a node
\* reachable beneath it fails its own Check, and the error is that of the
\* first failing child in argument order.
C15_CheckRecursive ==
    chk.op = "Check" =>
        /\ FirstFailure(chk.node) # NoError => chk.err # NoError
        /\ chk.err = FirstFailure(chk.node)

====
